---- MODULE Spec2Model ----
(***************************************************************************)
(* Model of the evaluation component of Chicken-Disease-Classification:    *)
(* cnnClassifier/components/evaluation.py (class Evaluation) and           *)
(* cnnClassifier/utils/common.py (save_json).                              *)
(*                                                                         *)
(* One Evaluation instance lives in one process.  Its methods evaluation() *)
(* and save_score() are called in any order from the idle state.  The      *)
(* library calls (Keras DirectoryIterator, Model.evaluate / predict,       *)
(* sklearn confusion_matrix and precision_recall_fscore_support, numpy     *)
(* argmax / mean / average, json.dump) are modelled by what they compute.  *)
(* Floats are modelled as exact fractions <<numerator, denominator>>.      *)
(***************************************************************************)
EXTENDS Integers, Sequences, FiniteSets, TLC

\* ------------------------------------------------------------------ bounds
MaxK == 2          \* class sub-directories of the training data: 1..MaxK
MaxN == 2          \* validation images: 0..MaxN
MaxRuns == 2       \* evaluation() calls on the instance
BatchSize == 1     \* config.params_batch_size

VARIABLES
    K,                \* number of class sub-directories (len(class_indices))
    classes,          \* generator.classes: true class index of file i, files in directory order
    outputs,          \* the model artifact applied to file i: its prediction vector
    valid_generator,  \* self._valid_generator: the bound method, or the DirectoryIterator
    score,            \* self.score
    confusion_matrix, \* self.confusion_matrix
    class_metrics,    \* self.class_metrics
    overall_metrics,  \* self.overall_metrics
    setBy,            \* per attribute: the evaluation() call that assigned it, 0 = never assigned
    pc,               \* position of the running method, "idle" between calls
    run,              \* number of evaluation() calls started so far
    completed,        \* the evaluation() calls that returned normally
    step,             \* next batch index of the running pass
    correct,          \* samples the scoring pass found correctly classified so far
    predictions,      \* prediction vectors collected by model.predict so far
    err,              \* exception raised by the last call, "none" if it returned
    scores,           \* the dict save_score assembled
    report            \* the file scores.json

vars == <<K, classes, outputs, valid_generator, score, confusion_matrix, class_metrics,
          overall_metrics, setBy, pc, run, completed, step, correct, predictions,
          err, scores, report>>

inputVars == <<K, classes, outputs>>
fieldVars == <<score, confusion_matrix, class_metrics, overall_metrics, setBy>>
localVars == <<step, correct, predictions>>

\* ------------------------------------------------------------- arithmetic
RECURSIVE GCD(_, _)
GCD(a, b) == IF b = 0 THEN a ELSE GCD(b, a % b)

\* a fraction in lowest terms, denominator > 0
Frac(n, d) == LET g == GCD(n, d) IN IF g = 0 THEN <<0, 1>> ELSE <<n \div g, d \div g>>

Zero == <<0, 1>>
FracAdd(x, y) == Frac(x[1] * y[2] + y[1] * x[2], x[2] * y[2])
FracMul(x, y) == Frac(x[1] * y[1], x[2] * y[2])
FracLeq(x, y) == x[1] * y[2] <= y[1] * x[2]
FracEq(x, y) == x[1] * y[2] = y[1] * x[2]
InUnit(x) == x[2] > 0 /\ x[1] >= 0 /\ x[1] <= x[2]

RECURSIVE FracSum(_)
FracSum(s) == IF s = <<>> THEN Zero ELSE FracAdd(Head(s), FracSum(Tail(s)))

RECURSIVE IntSum(_)
IntSum(s) == IF s = <<>> THEN 0 ELSE Head(s) + IntSum(Tail(s))

Min(S) == CHOOSE x \in S : \A y \in S : x <= y

RECURSIVE SortedSeq(_)
SortedSeq(S) == IF S = {} THEN <<>> ELSE <<Min(S)>> \o SortedSeq(S \ {Min(S)})

Range(s) == {s[i] : i \in 1..Len(s)}

\* ------------------------------------------------------------ numpy, Keras
\* np.argmax of one prediction vector: the first index holding the maximum, 0-based
np_argmax(v) == (CHOOSE j \in 1..Len(v) :
                    /\ \A k \in 1..Len(v) : v[k] <= v[j]
                    /\ \A k \in 1..(j - 1) : v[k] < v[j]) - 1

\* y_pred = np.argmax(predictions, axis=1)
ArgMaxRows(p) == [i \in 1..Len(p) |-> np_argmax(p[i])]

\* the iterator's index array with shuffle = False: np.arange(n) (file numbers, 0-based)
ShuffledIndexArray(n) == [j \in 1..n |-> n - j]
IndexArray(n) == [j \in 1..n |-> j - 1]

\* len(generator): ceil(n / batch_size)
NumBatches(n) == (n + BatchSize - 1) \div BatchSize

\* generator[idx]: the file numbers of batch idx
GetItem(g, idx) == SubSeq(g.index_array, BatchSize * idx + 1,
                          IF BatchSize * (idx + 1) < g.n THEN BatchSize * (idx + 1) ELSE g.n)

\* steps = len(self._valid_generator)
ShortPredictSteps(g) == IF NumBatches(g.n) > 0 THEN NumBatches(g.n) - 1 ELSE 0
PredictSteps(g) == NumBatches(g.n)

\* self._valid_generator before the first successful _valid_generator() call: the method
Method == [built |-> FALSE, n |-> 0, index_array |-> <<>>, batch_index |-> 0, delivered |-> <<>>]

\* flow_from_directory(subset = "validation", shuffle = False, ...)
FlowFromDirectory(n) ==
    [built |-> TRUE, n |-> n, index_array |-> IndexArray(n), batch_index |-> 0,
     delivered |-> [b \in 1..NumBatches(n) |-> 0]]

\* the generator after handing out batch idx
Deliver(g, idx) == [g EXCEPT !.delivered[idx + 1] = @ + 1]

\* self._valid_generator() can be called: the attribute still holds the method
AlwaysCallable(g) == TRUE
IsCallable(g) == ~g.built

\* ---------------------------------------------------------------- sklearn
CountPairs(y_true, y_pred, a, b) ==
    Cardinality({i \in 1..Len(y_true) : y_true[i] = a /\ y_pred[i] = b})
CountOf(y, a) == Cardinality({i \in 1..Len(y) : y[i] = a})

\* unique_labels(y_true, y_pred): the labels that occur, sorted
UniqueLabels(y_true, y_pred) == SortedSeq(Range(y_true) \cup Range(y_pred))

\* confusion_matrix(y_true, y_pred) with labels = None, then .tolist()
sk_confusion_matrix(y_true, y_pred) ==
    LET labels == UniqueLabels(y_true, y_pred)
    IN  [a \in 1..Len(labels) |->
            [b \in 1..Len(labels) |-> CountPairs(y_true, y_pred, labels[a], labels[b])]]

\* _prf_divide with zero_division = "warn": 0.0 where the denominator is 0
PrfDivideOne(n, d) == IF d = 0 THEN <<1, 1>> ELSE Frac(n, d)
PrfDivide(n, d) == IF d = 0 THEN Zero ELSE Frac(n, d)

\* precision_recall_fscore_support(y_true, y_pred, average=None, labels=range(k)), class c
Precision(y_true, y_pred, c) == PrfDivide(CountPairs(y_true, y_pred, c, c), CountOf(y_pred, c))
Recall(y_true, y_pred, c) == PrfDivide(CountPairs(y_true, y_pred, c, c), CountOf(y_true, c))
FScore(p, r) ==
    LET denom == FracAdd(p, r)
    IN  IF denom[1] = 0 THEN Zero
        ELSE Frac(2 * p[1] * r[1] * denom[2], p[2] * r[2] * denom[1])
Support(y_true, c) == CountOf(y_true, c)

\* self.class_metrics, indexed by class (entry c + 1 is the label of class index c)
ClassMetrics(y_true, y_pred, k) ==
    [c \in 1..k |->
        [precision |-> Precision(y_true, y_pred, c - 1),
         recall    |-> Recall(y_true, y_pred, c - 1),
         f1_score  |-> FScore(Precision(y_true, y_pred, c - 1), Recall(y_true, y_pred, c - 1)),
         support   |-> Support(y_true, c - 1)]]

\* np.mean(a)
NpMean(a) == FracMul(FracSum(a), <<1, Len(a)>>)

\* np.average(a, weights = w); raises ZeroDivisionError when the weights sum to zero
WeightsSumToZero(w) == IntSum(w) = 0
NpAverage(a, w) ==
    FracMul(FracSum([i \in 1..Len(a) |-> FracMul(a[i], <<w[i], 1>>)]), <<1, IntSum(w)>>)

Column(m, f) == [c \in 1..Len(m) |-> m[c][f]]

\* self.overall_metrics
OverallMetrics(m) ==
    [macro_precision    |-> NpMean(Column(m, "precision")),
     macro_recall       |-> NpMean(Column(m, "recall")),
     macro_f1_score     |-> NpMean(Column(m, "f1_score")),
     weighted_precision |-> NpAverage(Column(m, "precision"), Column(m, "support")),
     weighted_recall    |-> NpAverage(Column(m, "recall"), Column(m, "support")),
     weighted_f1_score  |-> NpAverage(Column(m, "f1_score"), Column(m, "support"))]

\* ----------------------------------------------------------------- inputs
\* generator.classes lists the files class directory by class directory: non-decreasing
SortedClasses(k, n) ==
    {s \in [1..n -> 0..(k - 1)] : \A i \in 1..(n - 1) : s[i] <= s[i + 1]}

\* outputs of a model with m output units: a one-hot vector per unit, and the tie
PredictionVectors(m) ==
    {[j \in 1..m |-> IF j = c THEN 1 ELSE 0] : c \in 1..m} \cup {[j \in 1..m |-> 1]}

\* ------------------------------------------------------------ report file
Attrs == {"score", "confusion_matrix", "class_metrics", "overall_metrics"}

NoOverall ==
    [macro_precision |-> Zero, macro_recall |-> Zero, macro_f1_score |-> Zero,
     weighted_precision |-> Zero, weighted_recall |-> Zero, weighted_f1_score |-> Zero]
NoScore == [loss |-> "", accuracy |-> Zero]
NoScores ==
    [loss |-> "", accuracy |-> Zero, confusion_matrix |-> <<>>, class_labels |-> <<>>,
     per_class_metrics |-> <<>>, overall_metrics |-> NoOverall,
     src |-> [a \in Attrs |-> 0]]

\* a report left by an earlier process
PriorScores == [NoScores EXCEPT !.loss = "prior"]

\* scores.json: missing, or holding none, a proper prefix, or all of the text of data
Absent == [exists |-> FALSE, written |-> "none", data |-> NoScores]
PriorReport == [exists |-> TRUE, written |-> "all", data |-> PriorScores]

\* what a reader of scores.json finds
ObservedComplete(r) == r.exists /\ r.written = "all"
ObservedBroken(r) == r.exists /\ r.written # "all"

\* ------------------------------------------------------------------- Init
Init ==
    /\ K \in 1..MaxK
    /\ \E n \in 0..MaxN, m \in {K, K + 1} :
          /\ classes \in SortedClasses(K, n)
          /\ outputs \in [1..n -> PredictionVectors(m)]
    /\ valid_generator = Method
    /\ score = NoScore
    /\ confusion_matrix = <<>>
    /\ class_metrics = <<>>
    /\ overall_metrics = NoOverall
    /\ setBy = [a \in Attrs |-> 0]
    /\ pc = "idle"
    /\ run = 0
    /\ completed = {}
    /\ step = 0
    /\ correct = 0
    /\ predictions = <<>>
    /\ err = "none"
    /\ scores = NoScores
    /\ report \in {Absent, PriorReport}

N == Len(classes)

\* the call raises exc: its frame is gone, the instance is idle again
Raise(exc) ==
    /\ pc' = "idle"
    /\ err' = exc
    /\ step' = 0
    /\ correct' = 0
    /\ predictions' = <<>>

\* ----------------------------------------------------------- evaluation()
\* evaluation(): model = self.load_model(self.config.path_of_model)
LoadModel ==
    /\ pc = "idle"
    /\ run < MaxRuns
    /\ run' = run + 1
    /\ \E ok \in BOOLEAN :
          IF ok THEN pc' = "build" /\ err' = "none" /\ UNCHANGED localVars
          ELSE Raise("ModelLoadError")
    /\ UNCHANGED <<inputVars, fieldVars, valid_generator, completed, scores, report>>

\* evaluation(): self._valid_generator()
BuildStream ==
    /\ pc = "build"
    /\ IF ~IsCallable(valid_generator)
       THEN Raise("TypeError") /\ UNCHANGED valid_generator
       ELSE \E found \in BOOLEAN :
               IF found
               THEN /\ valid_generator' = FlowFromDirectory(N)
                    /\ pc' = "score"
                    /\ step' = 0
                    /\ correct' = 0
                    /\ UNCHANGED <<predictions, err>>
               ELSE Raise("DataNotFoundError") /\ UNCHANGED valid_generator
    /\ UNCHANGED <<inputVars, fieldVars, run, completed, scores, report>>

\* the accuracy metric model.evaluate reports: correctly classified / samples seen
Accuracy(c, n) == IF n = 0 THEN Zero ELSE Frac(c, n)

\* samples of a batch whose arg-max prediction is the true class
CorrectIn(batch) ==
    Cardinality({j \in 1..Len(batch) :
                    np_argmax(outputs[batch[j] + 1]) = classes[batch[j] + 1]})

\* model.evaluate(self._valid_generator): one batch of the scoring pass
ScoreBatch ==
    /\ pc = "score"
    /\ step < NumBatches(valid_generator.n)
    /\ \E ok \in BOOLEAN :
          IF ok
          THEN /\ correct' = correct + CorrectIn(GetItem(valid_generator, step))
               /\ step' = step + 1
               /\ valid_generator' = Deliver(valid_generator, step)
               /\ UNCHANGED <<pc, err, predictions>>
          ELSE Raise("InferenceError") /\ UNCHANGED valid_generator
    /\ UNCHANGED <<inputVars, fieldVars, run, completed, scores, report>>

\* self.score = model.evaluate(...): the pass is over, [loss, accuracy] is assigned.
\* On an empty stream the library either raises or returns (it depends on its version).
ScoreDone ==
    /\ pc = "score"
    /\ step = NumBatches(valid_generator.n)
    /\ \E ok \in (IF valid_generator.n = 0 THEN BOOLEAN ELSE {TRUE}) :
          IF ok
          THEN /\ score' = [loss |-> "loss", accuracy |-> Accuracy(correct, valid_generator.n)]
               /\ setBy' = [setBy EXCEPT !["score"] = run]
               /\ pc' = "reset"
               /\ UNCHANGED <<err, localVars>>
          ELSE Raise("ValueError") /\ UNCHANGED <<score, setBy>>
    /\ UNCHANGED <<inputVars, valid_generator, confusion_matrix, class_metrics,
                   overall_metrics, run, completed, scores, report>>

\* calculate_metrics: self._valid_generator.reset()
Reset ==
    /\ pc = "reset"
    /\ valid_generator' = [valid_generator EXCEPT !.batch_index = 0]
    /\ pc' = "predict"
    /\ step' = 0
    /\ predictions' = <<>>
    /\ UNCHANGED <<inputVars, fieldVars, run, completed, correct, err, scores, report>>

\* model.predict(self._valid_generator, steps = ...): one batch of the prediction pass
PredictBatch ==
    /\ pc = "predict"
    /\ step < PredictSteps(valid_generator)
    /\ \E ok \in BOOLEAN :
          IF ok
          THEN /\ predictions' = predictions \o
                    [j \in 1..Len(GetItem(valid_generator, step)) |->
                        outputs[GetItem(valid_generator, step)[j] + 1]]
               /\ step' = step + 1
               /\ valid_generator' = Deliver(valid_generator, step)
               /\ UNCHANGED <<pc, err, correct>>
          ELSE Raise("InferenceError") /\ UNCHANGED valid_generator
    /\ UNCHANGED <<inputVars, fieldVars, run, completed, scores, report>>

\* the prediction pass is over
PredictDone == pc = "predict" /\ step = PredictSteps(valid_generator)

\* calculate_metrics from y_pred = np.argmax(...) to the end, and evaluation() returns.
\* The attributes are assigned in source order up to the first exception.
CalculateMetrics ==
    /\ PredictDone
    /\ \E ok \in (IF valid_generator.n = 0 THEN BOOLEAN ELSE {TRUE}) :
        LET y_pred == ArgMaxRows(predictions)
            y_true == classes
            m == ClassMetrics(y_true, y_pred, K)
        IN  IF ~ok
            THEN \* predict / argmax on an empty stream raised
                 /\ Raise("ValueError")
                 /\ UNCHANGED <<confusion_matrix, class_metrics, overall_metrics, setBy,
                                completed>>
            ELSE IF Len(y_pred) # Len(y_true)
            THEN \* sklearn check_consistent_length
                 /\ Raise("ValueError")
                 /\ UNCHANGED <<confusion_matrix, class_metrics, overall_metrics, setBy,
                                completed>>
            ELSE IF WeightsSumToZero(Column(m, "support"))
            THEN \* np.average raises while the overall dict is being built
                 /\ confusion_matrix' = sk_confusion_matrix(y_true, y_pred)
                 /\ class_metrics' = m
                 /\ setBy' = [setBy EXCEPT !["confusion_matrix"] = run,
                                           !["class_metrics"] = run]
                 /\ Raise("ZeroDivisionError")
                 /\ UNCHANGED <<overall_metrics, completed>>
            ELSE /\ confusion_matrix' = sk_confusion_matrix(y_true, y_pred)
                 /\ class_metrics' = m
                 /\ overall_metrics' = OverallMetrics(m)
                 /\ setBy' = [setBy EXCEPT !["confusion_matrix"] = run,
                                           !["class_metrics"] = run,
                                           !["overall_metrics"] = run]
                 /\ completed' = completed \cup {run}
                 /\ pc' = "idle"
                 /\ err' = "none"
                 /\ step' = 0
                 /\ correct' = 0
                 /\ predictions' = <<>>
    /\ UNCHANGED <<inputVars, valid_generator, score, run, scores, report>>

\* ----------------------------------------------------------- save_score()
\* building the scores dict reads self.score, self.confusion_matrix,
\* self._valid_generator.class_indices, self.class_metrics and self.overall_metrics;
\* a missing attribute raises AttributeError
NeedsScoreOnly == setBy["score"] > 0
CanAssemble == valid_generator.built /\ \A a \in Attrs : setBy[a] > 0

\* the scores dict
ScoresDict ==
    [loss              |-> score.loss,
     accuracy          |-> score.accuracy,
     confusion_matrix  |-> confusion_matrix,
     class_labels      |-> [c \in 1..K |-> c - 1],
     per_class_metrics |-> class_metrics,
     overall_metrics   |-> overall_metrics,
     src               |-> setBy]

\* save_score(): scores = {...}
Assemble ==
    /\ pc = "idle"
    /\ IF CanAssemble
       THEN /\ scores' = ScoresDict
            /\ pc' = "open"
            /\ err' = "none"
       ELSE /\ pc' = "idle"
            /\ err' = "AttributeError"
            /\ UNCHANGED scores
    /\ UNCHANGED <<inputVars, fieldVars, valid_generator, run, completed, localVars, report>>

\* save_json: open(path, "w") truncates the file, or fails and leaves it alone
Open ==
    /\ pc = "open"
    /\ \E ok \in BOOLEAN :
          IF ok
          THEN /\ report' = [exists |-> TRUE, written |-> "none", data |-> NoScores]
               /\ pc' = "write"
               /\ UNCHANGED err
          ELSE /\ pc' = "idle"
               /\ err' = "OSError"
               /\ UNCHANGED report
    /\ UNCHANGED <<inputVars, fieldVars, valid_generator, run, completed, localVars,
                   scores>>

\* save_json: json.dump(data, f, indent=4) writes the text piece by piece: the first
\* pieces, or the write fails and the with-block closes the file as it is
WriteChunk ==
    /\ pc = "write"
    /\ report.written = "none"
    /\ \E ok \in BOOLEAN :
          IF ok
          THEN /\ report' = [report EXCEPT !.written = "part", !.data = scores]
               /\ UNCHANGED <<pc, err>>
          ELSE /\ pc' = "idle"
               /\ err' = "OSError"
               /\ UNCHANGED report
    /\ UNCHANGED <<inputVars, fieldVars, valid_generator, run, completed, localVars,
                   scores>>

\* save_json: json.dump writes the last piece, or the write fails
WriteLast ==
    /\ pc = "write"
    /\ report.written = "part"
    /\ \E ok \in BOOLEAN :
          IF ok
          THEN /\ report' = [report EXCEPT !.written = "all"]
               /\ pc' = "close"
               /\ UNCHANGED err
          ELSE /\ pc' = "idle"
               /\ err' = "OSError"
               /\ UNCHANGED report
    /\ UNCHANGED <<inputVars, fieldVars, valid_generator, run, completed, localVars,
                   scores>>

\* save_json: the with-block ends, the file is closed, save_score returns
Close ==
    /\ pc = "close"
    /\ pc' = "idle"
    /\ err' = "none"
    /\ UNCHANGED <<inputVars, fieldVars, valid_generator, run, completed, localVars,
                   scores, report>>

\* the process dies inside a call: its memory is lost, the file stays as it is
Crash ==
    /\ pc \notin {"idle", "crashed"}
    /\ pc' = "crashed"
    /\ valid_generator' = Method
    /\ score' = NoScore
    /\ confusion_matrix' = <<>>
    /\ class_metrics' = <<>>
    /\ overall_metrics' = NoOverall
    /\ setBy' = [a \in Attrs |-> 0]
    /\ run' = 0
    /\ completed' = {}
    /\ step' = 0
    /\ correct' = 0
    /\ predictions' = <<>>
    /\ err' = "crash"
    /\ scores' = NoScores
    /\ UNCHANGED <<inputVars, report>>

Next ==
    \/ LoadModel
    \/ BuildStream
    \/ ScoreBatch
    \/ ScoreDone
    \/ Reset
    \/ PredictBatch
    \/ CalculateMetrics
    \/ Assemble
    \/ Open
    \/ WriteChunk
    \/ WriteLast
    \/ Close
    \/ Crash

Spec == Init /\ [][Next]_vars

\* ================================================================= claims
\* the predicted class of every validation file, straight from the model artifact
ModelPred == ArgMaxRows(outputs)

IsSet(a) == setBy[a] > 0
RowSum(row) == IntSum(row)
CellSum(m) == IntSum([a \in 1..Len(m) |-> RowSum(m[a])])

\* the file holds something this instance wrote (not what it found at start)
WrittenByInstance == report.exists /\ report # PriorReport

\* C1 (as claimed): after calculate_metrics has returned, the sum of all cells of the
\* stored confusion matrix is N, and for every class index c in 0..K-1 the sum of
\* row c equals the support reported for class c in per_class_metrics.
C1_MatrixSumsMatchSupport ==
    completed # {} =>
        /\ CellSum(confusion_matrix) = N
        /\ \A c \in 0..(K - 1) :
              /\ c + 1 <= Len(confusion_matrix)
              /\ RowSum(confusion_matrix[c + 1]) = class_metrics[c + 1].support

\* C2 (as claimed): after calculate_metrics has returned, the stored confusion matrix
\* is K x K and cell (i, j) counts the samples whose true class index is i and whose
\* predicted class index is j, also when some class index occurs in neither the true
\* nor the predicted labels.
C2_MatrixIsKxK ==
    completed # {} =>
        /\ Len(confusion_matrix) = K
        /\ \A i \in 1..Len(confusion_matrix) :
              /\ Len(confusion_matrix[i]) = K
              /\ \A j \in 1..Len(confusion_matrix[i]) :
                    confusion_matrix[i][j] = CountPairs(classes, ModelPred, i - 1, j - 1)

\* C3: for every class c in 0..K-1 the stored precision, recall and f1_score lie in
\* [0, 1]; precision is exactly 0 when class c is never predicted, recall is exactly 0
\* when class c has no support, and f1 is exactly 0 when precision and recall are 0.
C3_PerClassInUnitAndZeroFallback ==
    IsSet("class_metrics") =>
        /\ Len(class_metrics) = K
        /\ \A c \in 0..(K - 1) :
              LET m == class_metrics[c + 1]
              IN  /\ InUnit(m.precision) /\ InUnit(m.recall) /\ InUnit(m.f1_score)
                  /\ CountOf(ModelPred, c) = 0 => m.precision = Zero
                  /\ CountOf(classes, c) = 0 => m.recall = Zero
                  /\ (m.precision = Zero /\ m.recall = Zero) => m.f1_score = Zero

\* C3 witness: metrics are stored for a run with samples in which one class with
\* support was never predicted (precision, recall and f1 stored as 0) and one class
\* had no support.
C3_Witness ==
    /\ IsSet("class_metrics")
    /\ \E c \in 0..(K - 1) :
          /\ CountOf(ModelPred, c) = 0
          /\ CountOf(classes, c) > 0
          /\ class_metrics[c + 1].f1_score = Zero
    /\ \E c \in 0..(K - 1) : CountOf(classes, c) = 0

\* sum over classes of metric[c] * support[c]
WeightedSum(m, f) == FracSum([c \in 1..Len(m) |-> FracMul(m[c][f], <<m[c].support, 1>>)])
IsWeightedMean(w, m, f) ==
    IF IntSum(Column(m, "support")) = 0 THEN w = Zero
    ELSE FracEq(FracMul(w, <<IntSum(Column(m, "support")), 1>>), WeightedSum(m, f))

\* C4 (as claimed): once calculate_metrics has the per-class metrics, each weighted
\* aggregate is stored and equals sum(metric[c] * support[c]) / sum(support[c]); when
\* all supports are 0 it is 0 and no error is raised.
C4_WeightedAggregate ==
    IsSet("class_metrics") =>
        /\ IsSet("overall_metrics")
        /\ IsWeightedMean(overall_metrics.weighted_precision, class_metrics, "precision")
        /\ IsWeightedMean(overall_metrics.weighted_recall, class_metrics, "recall")
        /\ IsWeightedMean(overall_metrics.weighted_f1_score, class_metrics, "f1_score")
        /\ (IntSum(Column(class_metrics, "support")) = 0 /\ pc = "idle") => err = "none"

\* C5 (as claimed): a reader of the report path never finds an empty or half-written
\* file: the file is missing or holds a complete report.
C5_ReportWriteIsAtomic == ~ObservedBroken(report)

\* a predicted label index outside 0..K-1
PredOutOfRange == \E i \in 1..Len(outputs) : ModelPred[i] > K - 1

\* C6 (as claimed): if the label sequences differ in length or a label index lies
\* outside 0..K-1, the metrics computation signals an error instead of producing
\* metrics, and no report is written.
C6_ShapeMismatchSignalled ==
    (PredOutOfRange \/ (PredictDone /\ Len(predictions) # N)) =>
        /\ completed = {}
        /\ ~IsSet("overall_metrics")
        /\ ~WrittenByInstance

\* C7: when calculate_metrics takes y_pred, it has one entry per validation sample and
\* y_pred[i] is the arg-max of the model's prediction for file i, whose true label is
\* y_true[i] = classes[i], although the scoring pass iterated the stream before.
C7_PredictionsAligned ==
    PredictDone =>
        /\ Len(predictions) = N
        /\ \A i \in 1..Len(predictions) :
              i <= N /\ np_argmax(predictions[i]) = ModelPred[i]

\* C7 witness: the prediction pass has ended after a scoring pass over at least two
\* samples whose predicted classes differ.
C7_Witness ==
    /\ PredictDone
    /\ N >= 2
    /\ IsSet("score")
    /\ \E i, j \in 1..N : ModelPred[i] # ModelPred[j]

\* C8 (as claimed): no validation batch is delivered more than once between stream
\* construction and the end of calculate_metrics.
C8_SinglePass ==
    \A b \in 1..Len(valid_generator.delivered) : valid_generator.delivered[b] <= 1

\* C8 (amended): every batch is delivered exactly once by the scoring pass and exactly
\* once by the prediction pass, each pass in batch order; when the prediction pass
\* ends every batch has been delivered twice, and none is ever delivered a third time.
C8_TwoOrderedPasses ==
    valid_generator.built =>
        \A b \in 1..Len(valid_generator.delivered) :
            LET d == valid_generator.delivered[b]
            IN  /\ d <= 2
                /\ pc = "score" => d = (IF b <= step THEN 1 ELSE 0)
                /\ pc = "reset" => d = 1
                /\ pc = "predict" => d = (IF b <= step THEN 2 ELSE 1)
                /\ (PredictDone \/ completed # {}) => d = 2

\* C8 witness: the prediction pass has ended over a stream of at least two batches.
C8_Witness == PredictDone /\ Len(valid_generator.delivered) >= 2

InSaveJson == pc \in {"open", "write", "close"}

\* C9: save_score gets to the file only when an evaluation() call on this instance ran
\* to completion; otherwise it raises while assembling and the file stays as it was.
\* The record it writes holds the six fields as that one completed run assigned them.
C9_ReportOnlyFromCompletedRun ==
    pc # "crashed" =>
        /\ completed = {} => (~InSaveJson /\ report \in {Absent, PriorReport})
        /\ (InSaveJson \/ WrittenByInstance) =>
              /\ \E r \in completed : \A a \in Attrs : scores.src[a] = r
              /\ scores = ScoresDict
              /\ (WrittenByInstance /\ report.written # "none") => report.data = scores

\* C9 witness: evaluation() failed inside calculate_metrics after self.score was
\* assigned, save_score then raised AttributeError, and the earlier report is intact.
C9_Witness ==
    /\ pc = "idle"
    /\ err = "AttributeError"
    /\ IsSet("score")
    /\ completed = {}
    /\ report = PriorReport

\* C10: once _valid_generator() has built the stream, a later evaluation() call that
\* gets to the stream-building step raises there (TypeError), never starts scoring, and
\* leaves the stream, score, confusion_matrix, class_metrics and overall_metrics as
\* they were.
C10_StreamBuiltAtMostOnce ==
    [][(valid_generator.built /\ pc = "build" /\ pc' # "crashed") =>
          /\ pc' = "idle"
          /\ err' = "TypeError"
          /\ UNCHANGED <<valid_generator, score, confusion_matrix, class_metrics,
                         overall_metrics, setBy, completed>>]_vars

\* C10 witness: a completed run, then another evaluation() call that raised TypeError
\* with all results of the completed run still in place.
C10_Witness ==
    /\ pc = "idle"
    /\ err = "TypeError"
    /\ completed = {1}
    /\ run = 2
    /\ \A a \in Attrs : setBy[a] = 1

====
